---------------------------- MODULE Spec2Model ----------------------------
(***************************************************************************)
(* Model of minesweeper.py: the Minesweeper board, the Sentence class and  *)
(* the MinesweeperAI knowledge engine (add_knowledge, make_safe_move,      *)
(* make_random_move).  A cell is a pair <<row, col>>.  A sentence is a     *)
(* record [cells, count].  Every method call is one action; the loops of   *)
(* a method are unrolled by recursive operators that follow the code.      *)
(***************************************************************************)
EXTENDS Integers, FiniteSets, Sequences, TLC

VARIABLES
    height,      \* MinesweeperAI.height / Minesweeper.height
    width,       \* MinesweeperAI.width / Minesweeper.width
    board,       \* Minesweeper.board: the set of cells whose entry is True
    moves_made,  \* MinesweeperAI.moves_made
    mines,       \* MinesweeperAI.mines
    safes,       \* MinesweeperAI.safes
    knowledge,   \* MinesweeperAI.knowledge: sequence of sentences
    last,        \* the last call: its name, arguments, result and trace
    ncalls       \* number of calls made so far

vars == <<height, width, board, moves_made, mines, safes, knowledge, last, ncalls>>

----------------------------------------------------------------------------
(* Bounds of the model.                                                    *)

MaxHeight == 2
MaxWidth == 3
MaxCells == 6
MaxMines == 2
MaxCalls == 4
\* calls of add_knowledge with unchecked arguments, and the largest count tried
MaxAnyCalls == 2
MaxCount == 4

(* The value Python's None has in `last`; also the cell of a call that     *)
(* takes no cell.                                                          *)
None == <<>>

----------------------------------------------------------------------------
(* Minesweeper: the board the counts come from.                            *)

\* for i in range(h): for j in range(w): (i, j)
Cells(h, w) == (0 .. h - 1) \X (0 .. w - 1)

\* the 3x3 block range(cell[0]-1, cell[0]+2) x range(cell[1]-1, cell[1]+2)
Block(cell) == (cell[1] - 1 .. cell[1] + 1) \X (cell[2] - 1 .. cell[2] + 1)

is_mine(cell) == cell \in board

nearby_mines(cell) ==
    Cardinality({ c \in Block(cell) :
                    /\ c # cell
                    /\ 0 <= c[1] /\ c[1] < height /\ 0 <= c[2] /\ c[2] < width
                    /\ c \in board })

----------------------------------------------------------------------------
(* Sentence.                                                               *)

Sentence(cells, count) == [cells |-> cells, count |-> count]

known_mines(sen) ==
    IF Cardinality(sen.cells) = sen.count THEN sen.cells ELSE {}

known_safes(sen) ==
    IF sen.count = 0 THEN sen.cells ELSE {}

\* mutant: the count is not decremented when a mine is removed
SentenceMarkMine_KeepCount(sen, cell) ==
    IF cell \in sen.cells
    THEN [cells |-> sen.cells \ {cell}, count |-> sen.count]
    ELSE sen

SentenceMarkMine(sen, cell) ==
    IF cell \in sen.cells
    THEN [cells |-> sen.cells \ {cell}, count |-> sen.count - 1]
    ELSE sen

SentenceMarkSafe(sen, cell) ==
    IF cell \in sen.cells
    THEN [cells |-> sen.cells \ {cell}, count |-> sen.count]
    ELSE sen

----------------------------------------------------------------------------
(* MinesweeperAI.  The operators below work on a record                    *)
(*   ai = [mines, safes, knowledge, appended, constraint, extracted,       *)
(*         compared, ncompared]                                            *)
(* holding the fields a call of add_knowledge changes, and the trace of    *)
(* the call: `appended`, the sentences it appended to knowledge, each with *)
(* where it came from, whether an equal sentence was already in knowledge  *)
(* (dup) and whether it held a cell of mines or safes (stale) at that      *)
(* moment; `constraint`, the sentence of step 3; `extracted`, knowledge as *)
(* step 4 left it, which is what step 5 copies; `compared`, the sentences  *)
(* step 5 compared, and `ncompared`, the number of its comparisons.        *)

\* self.knowledge.append(sen), traced
Append_(ai, sen, from) ==
    [ai EXCEPT
        !.knowledge = Append(@, sen),
        !.appended = Append(@, [cells |-> sen.cells, count |-> sen.count,
                                from |-> from,
                                dup |-> \E i \in DOMAIN ai.knowledge :
                                            ai.knowledge[i] = sen,
                                stale |-> sen.cells \cap (ai.mines \cup ai.safes) # {}])]

\* mutant: self.mines is overwritten instead of added to
mark_mine_Overwrite(ai, cell) ==
    [ai EXCEPT
        !.mines = {cell},
        !.knowledge = [i \in DOMAIN @ |-> SentenceMarkMine(@[i], cell)]]

mark_mine(ai, cell) ==
    [ai EXCEPT
        !.mines = @ \cup {cell},
        !.knowledge = [i \in DOMAIN @ |-> SentenceMarkMine(@[i], cell)]]

mark_safe(ai, cell) ==
    [ai EXCEPT
        !.safes = @ \cup {cell},
        !.knowledge = [i \in DOMAIN @ |-> SentenceMarkSafe(@[i], cell)]]

\* for known_safe in safes: self.mark_safe(known_safe)
RECURSIVE MarkSafes(_, _)
MarkSafes(ai, cells) ==
    IF cells = {} THEN ai
    ELSE LET c == CHOOSE x \in cells : TRUE
         IN  MarkSafes(mark_safe(ai, c), cells \ {c})

\* for known_mine in mines: self.mark_mine(known_mine)
RECURSIVE MarkMines(_, _)
MarkMines(ai, cells) ==
    IF cells = {} THEN ai
    ELSE LET c == CHOOSE x \in cells : TRUE
         IN  MarkMines(mark_mine(ai, c), cells \ {c})

\* mutant: rows are checked against the width and columns against the height
neighbors_to_cell_Swapped(cell, h, w, ms, ss) ==
    LET onBoard == { c \in Block(cell) :
                       /\ c[2] >= 0 /\ c[2] < h
                       /\ c # cell
                       /\ c[1] >= 0 /\ c[1] < w }
    IN  << { c \in onBoard : c \notin ms /\ c \notin ss },
           Cardinality({ c \in onBoard : c \in ms }) >>

\* neighbors_to_cell: <<neighbors, mines>>.  The test
\* "(row, col) is not self.moves_made" compares a tuple with the set object
\* and is always true.
neighbors_to_cell(cell, h, w, ms, ss) ==
    LET onBoard == { c \in Block(cell) :
                       /\ c[2] >= 0 /\ c[2] < w
                       /\ c # cell
                       /\ c[1] >= 0 /\ c[1] < h }
    IN  << { c \in onBoard : c \notin ms /\ c \notin ss },
           Cardinality({ c \in onBoard : c \in ms }) >>

\* mutant: the known mines among the neighbours are not subtracted
ComputeNeighborConstraint_NoSubtract(cell, count, h, w, ms, ss) ==
    LET n == neighbors_to_cell(cell, h, w, ms, ss)
    IN  Sentence(n[1], count)

\* add_knowledge, step 3: the cells and the count of the new sentence
ComputeNeighborConstraint(cell, count, h, w, ms, ss) ==
    LET n == neighbors_to_cell(cell, h, w, ms, ss)
    IN  Sentence(n[1], count - n[2])

\* add_knowledge, step 3: "if new_sen not in self.knowledge: append"
AddSentence(ai, new_sen) ==
    IF \E i \in DOMAIN ai.knowledge : ai.knowledge[i] = new_sen
    THEN ai
    ELSE Append_(ai, new_sen, "probe")

\* mutant: the scan stops before the last sentence of knowledge
RECURSIVE Extract_SkipLast(_, _)
Extract_SkipLast(ai, i) ==
    IF i >= Len(ai.knowledge) THEN ai
    ELSE LET sen == ai.knowledge[i]
             ks  == known_safes(sen)
             km  == known_mines(sen)
         IN  Extract_SkipLast(MarkMines(MarkSafes(ai, ks), km), i + 1)

\* add_knowledge, step 4: one scan "for sen in self.knowledge", from index i.
\* known_safes() and known_mines() are both read before any cell is marked.
RECURSIVE Extract(_, _)
Extract(ai, i) ==
    IF i > Len(ai.knowledge) THEN ai
    ELSE LET sen == ai.knowledge[i]
             ks  == known_safes(sen)
             km  == known_mines(sen)
         IN  Extract(MarkMines(MarkSafes(ai, ks), km), i + 1)

\* mutant: the difference of the counts is taken the wrong way round
Pair_SwappedDiff(ai, sen1, sen2) ==
    LET n1 == Cardinality(sen1.cells)
        n2 == Cardinality(sen2.cells)
        ordered == n1 # n2 /\ n1 # 0 /\ n2 # 0
        big   == IF n1 > n2 THEN sen1 ELSE sen2
        small == IF n1 > n2 THEN sen2 ELSE sen1
        diff_count == small.count - big.count
        diff_set == big.cells \ small.cells
    IN  IF ~ordered THEN ai
        ELSE IF ~(small.cells \subseteq big.cells) THEN ai
        ELSE IF Cardinality(diff_set) = 1
             THEN LET c == CHOOSE x \in diff_set : TRUE
                  IN  IF diff_count = 0 THEN mark_safe(ai, c)
                      ELSE IF diff_count = 1 THEN mark_mine(ai, c)
                      ELSE ai
             ELSE Append_(ai, Sentence(diff_set, diff_count), "derived")

\* add_knowledge, step 5: the body of the inner loop for one pair
Pair(ai, sen1, sen2) ==
    LET n1 == Cardinality(sen1.cells)
        n2 == Cardinality(sen2.cells)
        ordered == n1 # n2 /\ n1 # 0 /\ n2 # 0
        big   == IF n1 > n2 THEN sen1 ELSE sen2
        small == IF n1 > n2 THEN sen2 ELSE sen1
        diff_count == big.count - small.count
        diff_set == big.cells \ small.cells
    IN  IF ~ordered THEN ai
        ELSE IF ~(small.cells \subseteq big.cells) THEN ai
        ELSE IF Cardinality(diff_set) = 1
             THEN LET c == CHOOSE x \in diff_set : TRUE
                  IN  IF diff_count = 0 THEN mark_safe(ai, c)
                      ELSE IF diff_count = 1 THEN mark_mine(ai, c)
                      ELSE ai
             ELSE Append_(ai, Sentence(diff_set, diff_count), "derived")

\* for sen2 in known_sentences, from index j.  (Reading nxt before the next
\* iteration makes TLC evaluate the iterations one by one instead of nesting
\* them; it does not change the value.)
RECURSIVE Inner(_, _, _, _)
Inner(ai, sen1, known, j) ==
    IF j > Len(known) THEN ai
    ELSE LET nxt == Pair([ai EXCEPT !.compared = @ \cup {sen1, known[j]},
                                    !.ncompared = @ + 1],
                         sen1, known[j])
         IN  IF Len(nxt.knowledge) >= 0
             THEN Inner(nxt, sen1, known, j + 1)
             ELSE nxt

\* list.remove(x): drops the first element equal to x
Remove(seq, x) ==
    LET k == CHOOSE i \in 1 .. Len(seq) :
                 seq[i] = x /\ \A m \in 1 .. i - 1 : seq[m] # x
    IN  [m \in 1 .. Len(seq) - 1 |-> IF m < k THEN seq[m] ELSE seq[m + 1]]

\* "for sen1 in known_sentences: known_sentences.remove(sen1); ...":
\* the list iterator is at position i (1-based) of the shrinking list
RECURSIVE Derive(_, _, _)
Derive(ai, known, i) ==
    IF i > Len(known) THEN ai
    ELSE LET sen1 == known[i]
             rest == Remove(known, sen1)
         IN  Derive(Inner(ai, sen1, rest, 1), rest, i + 1)

\* mutant: a second derivation pass runs over the sentences the first appended
Infer_TwoPasses(cell, count, h, w, ms, ss, kn) ==
    LET new_sen == ComputeNeighborConstraint(cell, count, h, w, ms, ss \cup {cell})
        ai0 == [mines |-> ms, safes |-> ss \cup {cell}, knowledge |-> kn,
                appended |-> <<>>, constraint |-> new_sen, extracted |-> <<>>,
                compared |-> {}, ncompared |-> 0]
        ai1 == AddSentence(ai0, new_sen)
        ai2 == Extract(ai1, 1)
        ai3 == [ai2 EXCEPT !.extracted = ai2.knowledge]
        ai4 == Derive(ai3, ai3.knowledge, 1)
    IN  Derive(ai4, ai4.knowledge, 1)

\* mutant: step 2 (self.safes.add(cell)) is left out
Infer_NoSafeAdd(cell, count, h, w, ms, ss, kn) ==
    LET new_sen == ComputeNeighborConstraint(cell, count, h, w, ms, ss)
        ai0 == [mines |-> ms, safes |-> ss, knowledge |-> kn,
                appended |-> <<>>, constraint |-> new_sen, extracted |-> <<>>,
                compared |-> {}, ncompared |-> 0]
        ai1 == AddSentence(ai0, new_sen)
        ai2 == Extract(ai1, 1)
        ai3 == [ai2 EXCEPT !.extracted = ai2.knowledge]
    IN  Derive(ai3, ai3.knowledge, 1)

\* add_knowledge without step 1: the fields it leaves in the engine
Infer(cell, count, h, w, ms, ss, kn) ==
    LET new_sen == ComputeNeighborConstraint(cell, count, h, w, ms, ss \cup {cell})
        ai0 == [mines |-> ms, safes |-> ss \cup {cell}, knowledge |-> kn,
                appended |-> <<>>, constraint |-> new_sen, extracted |-> <<>>,
                compared |-> {}, ncompared |-> 0]
        ai1 == AddSentence(ai0, new_sen)
        ai2 == Extract(ai1, 1)
        ai3 == [ai2 EXCEPT !.extracted = ai2.knowledge]
    IN  Derive(ai3, ai3.knowledge, 1)

----------------------------------------------------------------------------
(* The calls.                                                              *)

\* the record of a call; the last four fields are the trace of add_knowledge
Call(op, cell, count, ret, appended) ==
    [op |-> op, cell |-> cell, count |-> count, ret |-> ret, appended |-> appended,
     constraint |-> Sentence({}, 0), extracted |-> <<>>,
     compared |-> {}, ncompared |-> 0]

\* (ai is bound by \E over a one-element set so that TLC evaluates Infer
\* once per call; it is LET ai == Infer(...) otherwise)
add_knowledge(cell, count) ==
    \E ai \in {Infer(cell, count, height, width, mines, safes, knowledge)} :
        /\ moves_made' = moves_made \cup {cell}
        /\ mines' = ai.mines
        /\ safes' = ai.safes
        /\ knowledge' = ai.knowledge
        /\ last' = [Call("add_knowledge", cell, count, None, ai.appended)
                        EXCEPT !.constraint = ai.constraint,
                               !.extracted = ai.extracted,
                               !.compared = ai.compared,
                               !.ncompared = ai.ncompared]
        /\ ncalls' = ncalls + 1
        /\ UNCHANGED <<height, width, board>>

\* the caller of the game loop: a safe cell and the board's count for it
AddKnowledge ==
    /\ ncalls < MaxCalls
    /\ \E cell \in Cells(height, width) :
        /\ ~is_mine(cell)
        /\ add_knowledge(cell, nearby_mines(cell))

\* add_knowledge called with any arguments: a cell on the board or one step
\* outside it, and a count that need not be the board's
AddKnowledgeAny ==
    /\ ncalls < MaxAnyCalls
    /\ \E cell \in (-1 .. height) \X (-1 .. width), count \in -1 .. MaxCount :
        add_knowledge(cell, count)

\* neighbors_to_cell and the count adjustment of add_knowledge, on their own
NeighborsToCell ==
    /\ ncalls < 1
    /\ \E cell \in Cells(height, width), count \in 0 .. MaxCount :
        last' = Call("neighbors_to_cell", cell, count,
                     ComputeNeighborConstraint(cell, count, height, width, mines, safes),
                     <<>>)
    /\ ncalls' = ncalls + 1
    /\ UNCHANGED <<height, width, board, moves_made, mines, safes, knowledge>>

\* mutant: the loop returns None after its first iteration when the first
\* cell of safes is already in moves_made
make_safe_move_FirstOnly ==
    /\ ncalls < MaxCalls
    /\ \/ \E i \in safes :
            IF i \in moves_made
            THEN /\ moves_made' = moves_made
                 /\ last' = Call("make_safe_move", None, 0, None, <<>>)
            ELSE /\ moves_made' = moves_made \cup {i}
                 /\ last' = Call("make_safe_move", None, 0, i, <<>>)
       \/ /\ safes = {}
          /\ moves_made' = moves_made
          /\ last' = Call("make_safe_move", None, 0, None, <<>>)
    /\ ncalls' = ncalls + 1
    /\ UNCHANGED <<height, width, board, mines, safes, knowledge>>

\* "for i in self.safes": the first cell of the set's iteration order that is
\* not in moves_made; the order is the hash table's, so any of them
make_safe_move ==
    /\ ncalls < MaxCalls
    /\ \/ \E i \in safes \ moves_made :
            /\ moves_made' = moves_made \cup {i}
            /\ last' = Call("make_safe_move", None, 0, i, <<>>)
       \/ /\ safes \ moves_made = {}
          /\ moves_made' = moves_made
          /\ last' = Call("make_safe_move", None, 0, None, <<>>)
    /\ ncalls' = ncalls + 1
    /\ UNCHANGED <<height, width, board, mines, safes, knowledge>>

\* mutant: known mines are not excluded from the candidates
make_random_move_IgnoreMines ==
    LET future_moves == { c \in Cells(height, width) : c \notin moves_made }
    IN  /\ ncalls < MaxCalls
        /\ \/ /\ future_moves = {}
              /\ moves_made' = moves_made
              /\ last' = Call("make_random_move", None, 0, None, <<>>)
           \/ \E random_move \in future_moves :
                /\ moves_made' = moves_made \cup {random_move}
                /\ last' = Call("make_random_move", None, 0, random_move, <<>>)
        /\ ncalls' = ncalls + 1
        /\ UNCHANGED <<height, width, board, mines, safes, knowledge>>

make_random_move ==
    LET future_moves == { c \in Cells(height, width) :
                            c \notin mines /\ c \notin moves_made }
    IN  /\ ncalls < MaxCalls
        /\ \/ /\ future_moves = {}
              /\ moves_made' = moves_made
              /\ last' = Call("make_random_move", None, 0, None, <<>>)
           \/ \E random_move \in future_moves :
                /\ moves_made' = moves_made \cup {random_move}
                /\ last' = Call("make_random_move", None, 0, random_move, <<>>)
        /\ ncalls' = ncalls + 1
        /\ UNCHANGED <<height, width, board, mines, safes, knowledge>>

\* Minesweeper(height, width, mines) and MinesweeperAI(height, width)
Init ==
    /\ height \in 1 .. MaxHeight
    /\ width \in 1 .. MaxWidth
    /\ height * width <= MaxCells
    /\ board \in { b \in SUBSET Cells(height, width) : Cardinality(b) <= MaxMines }
    /\ moves_made = {}
    /\ mines = {}
    /\ safes = {}
    /\ knowledge = <<>>
    /\ last = Call("init", None, 0, None, <<>>)
    /\ ncalls = 0

Next ==
    \/ AddKnowledge
    \/ make_safe_move
    \/ make_random_move

Spec == Init /\ [][Next]_vars

\* The engine driven with unchecked add_knowledge arguments.
InitAny ==
    /\ Init
    /\ board = {}

NextAny == AddKnowledgeAny

SpecAny == InitAny /\ [][NextAny]_vars

\* The end-to-end scenario: a 3x3 board whose only mine is at (0,0); every
\* other cell is probed once, in any order, with the board's count.
Probe ==
    \E cell \in Cells(height, width) :
        /\ ~is_mine(cell)
        /\ cell \notin moves_made
        /\ add_knowledge(cell, nearby_mines(cell))

Init3x3 ==
    /\ height = 3
    /\ width = 3
    /\ board = {<<0, 0>>}
    /\ moves_made = {}
    /\ mines = {}
    /\ safes = {}
    /\ knowledge = <<>>
    /\ last = Call("init", None, 0, None, <<>>)
    /\ ncalls = 0

Next3x3 == Probe

Spec3x3 == Init3x3 /\ [][Next3x3]_vars

\* neighbors_to_cell as a function of the board size and of mines and safes.
InitNbr ==
    /\ height \in 1 .. MaxHeight
    /\ width \in 1 .. MaxWidth
    /\ height * width <= MaxCells
    /\ board = {}
    /\ moves_made = {}
    /\ mines \in SUBSET Cells(height, width)
    /\ safes \in SUBSET Cells(height, width)
    /\ knowledge = <<>>
    /\ last = Call("init", None, 0, None, <<>>)
    /\ ncalls = 0

NextNbr == NeighborsToCell

SpecNbr == InitNbr /\ [][NextNbr]_vars

----------------------------------------------------------------------------
(* Properties.                                                             *)

\* a step that is a call of `op`
Called(op) == last'.op = op /\ ncalls' = ncalls + 1

\* C1: with truthful add_knowledge inputs, no cell is both in mines and in
\* safes, at every point between calls.
C1_MinesSafesDisjoint == mines \cap safes = {}

C1_Witness ==
    /\ last.op = "add_knowledge"
    /\ mines # {}
    /\ Cardinality(safes) >= 2
    /\ \E c \in moves_made : c \notin safes

\* C2, as claimed: every cell of moves_made is in safes at every point
\* between calls.
C2_MovesMadeSubsetSafes == moves_made \subseteq safes

\* C2, amended: the cells of moves_made outside safes are cells
\* make_random_move returned that were not passed to add_knowledge since:
\* add_knowledge and make_safe_move add no cell to moves_made \ safes, and
\* make_random_move adds at most the cell it returns.
C2_OnlyRandomMoveOutsideSafes ==
    [][ /\ Called("add_knowledge") \/ Called("make_safe_move")
            => (moves_made' \ safes') \subseteq (moves_made \ safes)
        /\ Called("make_random_move")
            => (moves_made' \ safes') \subseteq ((moves_made \ safes) \cup {last'.ret})
      ]_vars

C2_Witness ==
    /\ last.op = "make_random_move"
    /\ last.ret # None
    /\ last.ret \notin safes
    /\ \E c \in moves_made : c \in safes

\* C3: mines, safes and moves_made never lose a cell, knowledge never loses
\* a sentence, and no sentence already in knowledge gains a cell.
C3_Monotone ==
    [][ /\ mines \subseteq mines'
        /\ safes \subseteq safes'
        /\ moves_made \subseteq moves_made'
        /\ Len(knowledge) <= Len(knowledge')
        /\ \A i \in DOMAIN knowledge : knowledge'[i].cells \subseteq knowledge[i].cells
      ]_vars

C3_Witness ==
    /\ last.op = "add_knowledge"
    /\ ncalls >= 2
    /\ mines # {}
    /\ \E i \in DOMAIN knowledge : knowledge[i].cells = {}
    /\ \E i \in DOMAIN knowledge : knowledge[i].cells # {}

\* C4: when add_knowledge(cell, count) returns, cell is in moves_made and in
\* safes and no sentence of knowledge contains cell.
C4_IngestRecordsSafe ==
    last.op = "add_knowledge" =>
        /\ last.cell \in moves_made
        /\ last.cell \in safes
        /\ \A i \in DOMAIN knowledge : last.cell \notin knowledge[i].cells

\* C5: two consecutive add_knowledge calls with the same (cell, count) append
\* sentences that are pairwise different in (cells, count), none of them equal
\* to a sentence already in knowledge when it is appended.
C5_NoDuplicateSentence ==
    [][ ( /\ last.op = "add_knowledge"
          /\ Called("add_knowledge")
          /\ last'.cell = last.cell
          /\ last'.count = last.count )
        => LET all == last.appended \o last'.appended
           IN  /\ \A i, j \in DOMAIN all :
                     i # j => Sentence(all[i].cells, all[i].count)
                                # Sentence(all[j].cells, all[j].count)
               /\ \A i \in DOMAIN all : ~all[i].dup
      ]_vars

\* the in-bounds 8-adjacent cells of a cell of the board
Adjacent(cell, h, w) ==
    { c \in Cells(h, w) :
        /\ c # cell
        /\ c[1] - cell[1] \in {-1, 0, 1}
        /\ c[2] - cell[2] \in {-1, 0, 1} }

\* C6: for every cell, board size, mines and safes, the constraint computed
\* for (cell, count) has as cells exactly the adjacent cells that are in
\* neither mines nor safes, and as count the given count minus the number of
\* adjacent cells in mines.
C6_NeighborConstraintExact ==
    last.op = "neighbors_to_cell" =>
        LET adj == Adjacent(last.cell, height, width)
        IN  /\ last.ret.cells = adj \ (mines \cup safes)
            /\ last.ret.count = last.count - Cardinality(adj \cap mines)

C6_Witness ==
    /\ last.op = "neighbors_to_cell"
    /\ height # width
    /\ Cardinality(Adjacent(last.cell, height, width)) = 3
    /\ Adjacent(last.cell, height, width) \cap mines # {}
    /\ Adjacent(last.cell, height, width) \cap (safes \ mines) # {}
    /\ last.ret.cells # {}

C8_SafeMoveReadOnly ==
    [][ Called("make_safe_move") =>
          mines' = mines /\ safes' = safes /\ moves_made' = moves_made
      ]_vars

\* C9: make_random_move returns a board cell that was in neither mines nor
\* moves_made and adds it to moves_made; when there is no such cell it
\* returns None and changes nothing; and every such cell is a possible
\* result of the call.
C9_RandomMoveContract ==
    /\ [][ Called("make_random_move") =>
             LET free == Cells(height, width) \ (mines \cup moves_made)
             IN  /\ free # {} => /\ last'.ret \in free
                                 /\ moves_made' = moves_made \cup {last'.ret}
                 /\ free = {} => /\ last'.ret = None
                                 /\ moves_made' = moves_made
                 /\ mines' = mines /\ safes' = safes /\ knowledge' = knowledge
         ]_vars
    /\ [](ncalls < MaxCalls =>
             \A c \in Cells(height, width) \ (mines \cup moves_made) :
                 ENABLED (make_random_move /\ last'.ret = c))

C9_Witness ==
    /\ last.op = "make_random_move"
    /\ last.ret # None
    /\ mines # {}
    /\ last.ret \notin safes

C9_WitnessExhausted ==
    /\ last.op = "make_random_move"
    /\ last.ret = None
    /\ mines # {}

\* an add_knowledge input no board can have produced
Malformed(cell, count) ==
    \/ count < 0
    \/ cell \notin Cells(height, width)
    \/ count > Cardinality(Adjacent(cell, height, width))

\* C10: add_knowledge with a negative count, a count above the number of
\* in-bounds neighbours or a cell outside the board is refused: moves_made,
\* safes, mines and knowledge are as before the call.
C10_IngestRejectsMalformed ==
    [][ (Called("add_knowledge") /\ Malformed(last'.cell, last'.count)) =>
          /\ moves_made' = moves_made
          /\ safes' = safes
          /\ mines' = mines
          /\ knowledge' = knowledge
      ]_vars

\* C11: when add_knowledge computes an adjusted count of 0, every cell of the
\* computed neighbour set is in safes when the call returns; and on a fresh
\* 3x3 engine add_knowledge((2,2), 0) leaves (1,1), (1,2), (2,1) in safes.
C11_AllNeighboursSafe ==
    /\ (last.op = "add_knowledge" /\ last.constraint.count = 0)
           => last.constraint.cells \subseteq safes
    /\ {<<1, 1>>, <<1, 2>>, <<2, 1>>}
           \subseteq Infer(<<2, 2>>, 0, 3, 3, {}, {}, <<>>).safes

C11_Witness ==
    /\ last.op = "add_knowledge"
    /\ last.constraint.count = 0
    /\ Cardinality(last.constraint.cells) >= 2
    /\ last.count > 0
    /\ last.constraint.cells \subseteq safes

\* C12: on the 3x3 board with its only mine at (0,0), once all eight safe
\* cells have been probed (each once, in any order), (0,0) is in mines.
C12_HazardFound ==
    (height = 3 /\ width = 3 /\ board = {<<0, 0>>}
        /\ moves_made = Cells(3, 3) \ {<<0, 0>>})
    => <<0, 0>> \in mines

\* C13: with truthful inputs every sentence of knowledge has
\* 0 <= count <= |cells| at every point between calls.
C13_CountWithinCells ==
    \A i \in 1..Len(knowledge) :
        /\ 0 <= knowledge[i].count
        /\ knowledge[i].count <= Cardinality(knowledge[i].cells)

C13_Witness ==
    /\ last.op = "add_knowledge"
    /\ mines # {}
    /\ \E i \in 1..Len(knowledge) :
           /\ knowledge[i].cells # {}
           /\ knowledge[i].count < Cardinality(knowledge[i].cells)
    /\ \E i \in 1..Len(last.appended) : last.appended[i].from = "derived"

\* C14: whenever an add_knowledge call has returned, no sentence of knowledge
\* contains a cell that is in mines or in safes.
C14_Propagated ==
    last.op = "add_knowledge"
    => \A i \in 1..Len(knowledge) :
           knowledge[i].cells \cap (mines \cup safes) = {}

\* C15: every sentence appended to knowledge by add_knowledge, the probe
\* sentence or a derived one, contains at the moment of the append no cell
\* that is in mines or in safes.
C15_AppendedUnresolved ==
    last.op = "add_knowledge"
    => \A i \in 1..Len(last.appended) : ~last.appended[i].stale

\* C15, the probe sentence alone (lines 253-263): it is built by
\* neighbors_to_cell, which leaves out the cells of mines and safes.
C15_ProbeSentenceUnresolved ==
    last.op = "add_knowledge"
    => \A i \in 1..Len(last.appended) :
           last.appended[i].from = "probe" => ~last.appended[i].stale

\* C16: when the extraction scan of add_knowledge has finished (before the
\* derivation pass starts), no sentence of knowledge has a non-empty cell set
\* together with count = 0 or count = |cells|.
C16_ExtractionFixedPoint ==
    last.op = "add_knowledge"
    => \A i \in 1..Len(last.extracted) :
           LET sen == last.extracted[i]
           IN  sen.cells = {}
               \/ (sen.count # 0 /\ sen.count # Cardinality(sen.cells))

\* C17: the derivation pass applies the subtraction rule to every pair of
\* distinct sentences A, B of the snapshot with non-empty cell sets, wherever
\* they stand in knowledge: if B.cells is a proper subset of A.cells, then
\* after the pass the single extra cell is in mines when the counts differ by
\* 1, in safes when they are equal, and the sentence (extra, diff) is in
\* knowledge when there is more than one extra cell.
C17_EveryPairDerived ==
    last.op = "add_knowledge"
    => \A i, j \in 1..Len(last.extracted) :
           LET A == last.extracted[i]
               B == last.extracted[j]
               extra == A.cells \ B.cells
               diff == A.count - B.count
           IN  (B.cells # {} /\ B.cells \subseteq A.cells /\ extra # {})
               => /\ (Cardinality(extra) = 1 /\ diff = 1) => extra \subseteq mines
                  /\ (Cardinality(extra) = 1 /\ diff = 0) => extra \subseteq safes
                  /\ Cardinality(extra) > 1
                         => \E k \in 1..Len(knowledge) :
                                knowledge[k] = Sentence(extra, diff)

\* C18: the derivation pass never appends a derived sentence that is equal
\* to a sentence already in knowledge at the moment of the append.
C18_DerivedNotDuplicate ==
    last.op = "add_knowledge"
    => \A i \in 1..Len(last.appended) :
           last.appended[i].from = "derived" => ~last.appended[i].dup

\* the sentences of a list
Range(seq) == {seq[i] : i \in 1..Len(seq)}

\* C19: every add_knowledge call terminates: its derivation pass runs once,
\* over the snapshot of knowledge taken when the pass starts, so a call that
\* has returned compared only sentences of the snapshot, at most n * (n - 1)
\* times for a snapshot of n sentences, however many sentences the pass
\* appended.
C19_TerminatesOnSnapshot ==
    last.op = "add_knowledge"
       => /\ last.compared \subseteq Range(last.extracted)
          /\ last.ncompared <= Len(last.extracted) * (Len(last.extracted) - 1)

C19_Witness ==
    /\ last.op = "add_knowledge"
    /\ last.ncompared >= 4
    /\ \E i \in 1..Len(last.appended) :
           last.appended[i].from = "derived" /\ ~last.appended[i].dup
    /\ Len(knowledge) > Len(last.extracted)

\* C20: with truthful inputs every cell of mines is a mine of the board, no
\* cell of safes is one, every sentence of knowledge is true of the board (its
\* count is the number of mines among its cells), and make_safe_move never
\* returns a mine.
C20_SoundAgainstBoard ==
    /\ mines \subseteq board
    /\ safes \cap board = {}
    /\ \A i \in 1..Len(knowledge) :
           knowledge[i].count = Cardinality(knowledge[i].cells \cap board)
    /\ (last.op = "make_safe_move" /\ last.ret # None) => last.ret \notin board

C20_Witness ==
    /\ safes # {}
    /\ \E i \in 1..Len(knowledge) : knowledge[i].count > 0
    /\ last.op = "make_safe_move"
    /\ last.ret # None
    /\ last.ret \notin board

=============================================================================
